---- MODULE Spec2Model ----
(***************************************************************************)
(* Model of terminalhistory.py: the control-code helpers handle_bs,        *)
(* handle_cr and handle_nl, and the two line trackers TempHistory (one     *)
(* line) and TerminalHistory (all lines).                                  *)
(*                                                                         *)
(* A text is a sequence of characters; a character is one of the strings   *)
(* of Chars.  Python's None is the one-element sequence None, which is no  *)
(* text.                                                                   *)
(***************************************************************************)
EXTENDS Integers, Sequences, FiniteSets, TLC

\* ---- bounds ----
MaxFragLen == 3   \* longest fragment given to one _record call
MaxText    == 3   \* total number of characters fed over a run
MaxValues  == 2   \* most values given to one print call

\* ---- characters ----
BS  == "BS"    \* "\b"
CR  == "CR"    \* "\r"
NL  == "NL"    \* "\n"
TAB == "TAB"   \* "\t"
ESC == "ESC"   \* "\x1b"
Ordinary == {"a", "b"}
Chars == Ordinary \cup {BS, CR, NL, TAB}
None == <<"None">>

Last(s) == s[Len(s)]
Front(s) == SubSeq(s, 1, Len(s) - 1)

RECURSIVE TextsOfLen(_)
TextsOfLen(n) ==
    IF n = 0 THEN {<<>>}
    ELSE {Append(t, c) : t \in TextsOfLen(n - 1), c \in Chars}

Fragments == UNION {TextsOfLen(n) : n \in 0..MaxFragLen}

\* ---- str methods used by the program ----
\* text.split(sep): the pieces between the separators, empty pieces kept.
RECURSIVE split(_, _)
split(text, sep) ==
    IF text = <<>> THEN << <<>> >>
    ELSE LET rest == split(Tail(text), sep) IN
         IF Head(text) = sep THEN << <<>> >> \o rest
         ELSE << <<Head(text)>> \o Head(rest) >> \o Tail(rest)

\* text.lstrip(c)
RECURSIVE lstrip(_, _)
lstrip(text, c) ==
    IF text # <<>> /\ Head(text) = c THEN lstrip(Tail(text), c) ELSE text

\* text.rstrip(c)
RECURSIVE rstrip(_, _)
rstrip(text, c) ==
    IF text # <<>> /\ Last(text) = c THEN rstrip(Front(text), c) ELSE text

\* str(n) for a natural number, as the f-string formats it.
Digit(d) == CASE d = 0 -> "0" [] d = 1 -> "1" [] d = 2 -> "2" [] d = 3 -> "3"
              [] d = 4 -> "4" [] d = 5 -> "5" [] d = 6 -> "6" [] d = 7 -> "7"
              [] d = 8 -> "8" [] d = 9 -> "9"
RECURSIVE Decimal(_)
Decimal(n) == IF n < 10 THEN <<Digit(n)>>
              ELSE Decimal(n \div 10) \o <<Digit(n % 10)>>

\* ---- the control-code helpers ----
\* re.sub(".\b", "", text): one left-to-right pass over non-overlapping
\* matches; "." is any character but the newline, the backspace included.
RECURSIVE handle_bs(_)
handle_bs(text) ==
    IF Len(text) < 2 THEN text
    ELSE IF text[1] # NL /\ text[2] = BS
         THEN handle_bs(SubSeq(text, 3, Len(text)))
         ELSE <<text[1]>> \o handle_bs(Tail(text))

handle_cr(text) == Last(split(text, CR))

\* A variant of the loop that resolves the backspaces of a piece before its
\* carriage returns.
RECURSIVE nl_loop_bs_first(_)
nl_loop_bs_first(pieces) ==
    IF pieces = <<>> THEN <<>>
    ELSE << handle_cr(handle_bs(Head(pieces))) \o <<NL>> >>
             \o nl_loop_bs_first(Tail(pieces))

\* The loop of handle_nl over text.split("\n").
RECURSIVE nl_loop(_)
nl_loop(pieces) ==
    IF pieces = <<>> THEN <<>>
    ELSE << handle_bs(handle_cr(Head(pieces))) \o <<NL>> >> \o nl_loop(Tail(pieces))

\* A variant of handle_nl that keeps the element made from the empty piece
\* after a final newline.
handle_nl_no_pop(text) ==
    LET ls == nl_loop(split(text, NL)) IN
    IF Last(text) = NL THEN ls
    ELSE [ls EXCEPT ![Len(ls)] = rstrip(ls[Len(ls)], NL)]

\* handle_nl(text), for text # "" (text[-1] is read).
handle_nl(text) ==
    LET ls == nl_loop(split(text, NL)) IN
    IF Last(text) = NL THEN Front(ls)
    ELSE [ls EXCEPT ![Len(ls)] = rstrip(ls[Len(ls)], NL)]

\* ---- state ----
VARIABLES
    record_all,    \* TRUE: the tracker is a TerminalHistory, FALSE: a TempHistory
    line,          \* TempHistory.line (the attribute; unused by TerminalHistory)
    lines,         \* TerminalHistory.lines
    prev_segment,  \* _prev_segment
    stdout,        \* what the last call wrote with builtin_print
    exc,           \* the exception the last call raised, or "none"
    op,            \* the last call
    frags,         \* the non-empty fragments fed so far, in order
    call,          \* the arguments of the last call
    arg,           \* the text a helper is called on directly
    res            \* what that call returned, as a list of texts

vars == <<record_all, line, lines, prev_segment, stdout, exc, op, frags, call,
          arg, res>>

\* self.line: the attribute of TempHistory, the property of TerminalHistory.
cur_line == IF record_all
            THEN (IF lines = <<>> THEN None ELSE Last(lines))
            ELSE line

RECURSIVE Concat(_)
Concat(fs) == IF fs = <<>> THEN <<>> ELSE Head(fs) \o Concat(Tail(fs))

fed == Concat(frags)

\* The arguments of a call that takes none.
NoArgs == [none |-> TRUE]

Init ==
    /\ record_all \in BOOLEAN
    /\ line = None
    /\ lines = <<>>
    /\ prev_segment = None
    /\ stdout = <<>>
    /\ exc = "none"
    /\ op = "init"
    /\ frags = <<>>
    /\ call = NoArgs
    /\ arg = <<>>
    /\ res = <<>>

\* prev_line_ended of both _record methods; None when self.line[-1] raises.
prev_line_ended(l) == l = None \/ Last(l) = NL

\* The line TempHistory._record(text) stores when the line was l, for
\* text # "" and l # "".
record_line(l, text) ==
    LET ls == handle_nl(text) IN
    IF prev_line_ended(l) THEN lstrip(Last(ls), BS)
    ELSE handle_bs(l \o Last(ls))

\* A variant of TempHistory._record without the early return for the empty
\* text: handle_nl("") then reads text[-1] and raises.
TempHistory_record_unguarded(text) ==
    /\ ~record_all
    /\ Len(fed) + Len(text) <= MaxText
    /\ op' = "record"
    /\ call' = [text |-> text]
    /\ stdout' = <<>>
    /\ UNCHANGED <<record_all, lines, arg, res>>
    /\ frags' = IF text = <<>> THEN frags ELSE Append(frags, text)
    /\ IF text = <<>> \/ line = <<>>
       THEN /\ exc' = "IndexError"
            /\ UNCHANGED <<line, prev_segment>>
       ELSE /\ exc' = "none"
            /\ line' = record_line(line, text)
            /\ prev_segment' = IF prev_line_ended(line)
                               THEN prev_segment ELSE line

\* TempHistory._record(text)
TempHistory_record(text) ==
    /\ ~record_all
    /\ Len(fed) + Len(text) <= MaxText
    /\ op' = "record"
    /\ call' = [text |-> text]
    /\ stdout' = <<>>
    /\ UNCHANGED <<record_all, lines, arg, res>>
    /\ IF text = <<>>
       THEN /\ exc' = "none"
            /\ UNCHANGED <<line, prev_segment, frags>>
       ELSE /\ frags' = Append(frags, text)
            /\ IF line = <<>>
               THEN /\ exc' = "IndexError"
                    /\ UNCHANGED <<line, prev_segment>>
               ELSE /\ exc' = "none"
                    /\ line' = record_line(line, text)
                    /\ prev_segment' = IF prev_line_ended(line)
                                       THEN prev_segment ELSE line

\* A variant of the loop that assigns a segment to the last line when the
\* line has ended, as TempHistory does, instead of appending it.
RECURSIVE record_loop_overwrite(_, _, _, _)
record_loop_overwrite(ls, prev, segs, ended) ==
    IF segs = <<>> THEN [lines |-> ls, prev |-> prev]
    ELSE IF ended
         THEN record_loop_overwrite(
                  IF ls = <<>> THEN <<lstrip(Head(segs), BS)>>
                  ELSE [ls EXCEPT ![Len(ls)] = lstrip(Head(segs), BS)],
                  prev, Tail(segs), ended)
         ELSE record_loop_overwrite(
                  [ls EXCEPT ![Len(ls)] = handle_bs(Last(ls) \o Head(segs))],
                  Last(ls), Tail(segs), ended)

\* The for loop of TerminalHistory._record: the lines and _prev_segment
\* after the segments segs, prev_line_ended being computed before the loop.
RECURSIVE record_loop(_, _, _, _)
record_loop(ls, prev, segs, ended) ==
    IF segs = <<>> THEN [lines |-> ls, prev |-> prev]
    ELSE IF ended
         THEN record_loop(Append(ls, lstrip(Head(segs), BS)), prev,
                          Tail(segs), ended)
         ELSE record_loop([ls EXCEPT ![Len(ls)] = handle_bs(Last(ls) \o Head(segs))],
                          Last(ls), Tail(segs), ended)

\* TerminalHistory._record(text)
TerminalHistory_record(text) ==
    /\ record_all
    /\ Len(fed) + Len(text) <= MaxText
    /\ op' = "record"
    /\ call' = [text |-> text]
    /\ stdout' = <<>>
    /\ UNCHANGED <<record_all, line, arg, res>>
    /\ IF text = <<>>
       THEN /\ exc' = "none"
            /\ UNCHANGED <<lines, prev_segment, frags>>
       ELSE /\ frags' = Append(frags, text)
            /\ IF cur_line = <<>>
               THEN /\ exc' = "IndexError"
                    /\ UNCHANGED <<lines, prev_segment>>
               ELSE /\ exc' = "none"
                    /\ LET r == record_loop(lines, prev_segment, handle_nl(text),
                                            prev_line_ended(cur_line)) IN
                       /\ lines' = r.lines
                       /\ prev_segment' = r.prev

\* f"\x1b[{line_length}C\x1b[1A"
undo_sequence(line_length) ==
    <<ESC, "[">> \o Decimal(line_length) \o <<"C", ESC, "[", "1", "A">>

\* A variant of _undo_newline that writes the sequence with self.print, so
\* that it is recorded like any other printed text.
undo_newline_recorded ==
    /\ op' = "undo"
    /\ call' = NoArgs
    /\ UNCHANGED <<record_all, frags, arg, res>>
    /\ IF cur_line = None
       THEN /\ exc' = "TypeError"
            /\ stdout' = <<>>
            /\ UNCHANGED <<line, lines, prev_segment>>
       ELSE /\ stdout' = undo_sequence(Len(cur_line))
            /\ IF cur_line = <<>>
               THEN /\ exc' = "IndexError"
                    /\ UNCHANGED <<line, lines, prev_segment>>
               ELSE /\ exc' = "none"
                    /\ prev_segment' = IF prev_line_ended(cur_line)
                                       THEN prev_segment ELSE cur_line
                    /\ IF record_all
                       THEN /\ lines' = record_loop(lines, prev_segment,
                                             <<stdout'>>, prev_line_ended(cur_line)).lines
                            /\ UNCHANGED line
                       ELSE /\ line' = IF prev_line_ended(line) THEN stdout'
                                       ELSE line \o stdout'
                            /\ UNCHANGED lines

\* TempHistory._undo_newline(), inherited by TerminalHistory.
undo_newline ==
    /\ op' = "undo"
    /\ call' = NoArgs
    /\ UNCHANGED <<record_all, line, lines, prev_segment, frags, arg, res>>
    /\ IF cur_line = None
       THEN /\ exc' = "TypeError"
            /\ stdout' = <<>>
       ELSE /\ exc' = "none"
            /\ stdout' = undo_sequence(Len(cur_line))

Min(a, b) == IF a < b THEN a ELSE b

\* The fragments that can still be fed in this run.
FragmentsLeft ==
    UNION {TextsOfLen(n) : n \in 0..Min(MaxFragLen, MaxText - Len(fed))}

Next ==
    \/ \E text \in FragmentsLeft : TempHistory_record(text)
    \/ \E text \in FragmentsLeft : TerminalHistory_record(text)
    \/ undo_newline

Spec == Init /\ [][Next]_vars

\* ---- the public methods print and input ----

\* The texts given to print and input as a value, a prompt or a response:
\* empty or one character.
SP == "SP"     \* " "
IOChars == {"a", SP, BS, NL}
IOTexts == {<<>>} \cup {<<c>> : c \in IOChars}

\* The separators and the ends given to print: the defaults " " and "\n",
\* and the empty text.
Seps == {<<>>, <<SP>>}
Ends == {<<>>, <<NL>>}

\* The lists of k values.
RECURSIVE ValueSeqsOf(_)
ValueSeqsOf(k) ==
    IF k = 0 THEN {<<>>}
    ELSE {<<v>> \o rest : v \in IOTexts, rest \in ValueSeqsOf(k - 1)}

RECURSIVE TotalLen(_)
TotalLen(texts) ==
    IF texts = <<>> THEN 0 ELSE Len(Head(texts)) + TotalLen(Tail(texts))

\* The lists of at most MaxValues values with n characters at most in all.
ValueSeqs(n) ==
    {vs \in UNION {ValueSeqsOf(k) : k \in 0..MaxValues} : TotalLen(vs) <= n}

\* The characters still to be fed in this run.
rem == MaxText - Len(fed)

\* file: sys.stdout, None, or any other destination.
Files == {"stdout", "None", "other"}

\* sep.join(values)
RECURSIVE join(_, _)
join(sep, values) ==
    IF values = <<>> THEN <<>>
    ELSE IF Len(values) = 1 THEN values[1]
    ELSE values[1] \o sep \o join(sep, Tail(values))

\* The attributes of the tracker.
tracker == [line |-> line, lines |-> lines, prev |-> prev_segment]

\* self._record(text) on the tracker t: its attributes afterwards and the
\* exception raised, by the _record of the tracker's class.
record_call(t, text) ==
    LET l == IF record_all
             THEN (IF t.lines = <<>> THEN None ELSE Last(t.lines))
             ELSE t.line
    IN
    IF text = <<>> THEN [t |-> t, exc |-> "none"]
    ELSE IF l = <<>> THEN [t |-> t, exc |-> "IndexError"]
    ELSE IF record_all
         THEN LET r == record_loop(t.lines, t.prev, handle_nl(text),
                                   prev_line_ended(l)) IN
              [t |-> [t EXCEPT !.lines = r.lines, !.prev = r.prev],
               exc |-> "none"]
         ELSE [t |-> [t EXCEPT !.line = record_line(l, text),
                               !.prev = IF prev_line_ended(l) THEN t.prev ELSE l],
               exc |-> "none"]

\* A variant of print that records whatever record and file are.
print_always_recorded(values, sep, end, file, record) ==
    LET text == join(sep, values) \o end
        r    == record_call(tracker, text)
    IN
    /\ op \in {"init", "idle"}
    /\ Len(text) <= rem
    /\ op' = "print"
    /\ call' = [values |-> values, sep |-> sep, end |-> end,
                file |-> file, record |-> record]
    /\ stdout' = IF file \in {"stdout", "None"} THEN text ELSE <<>>
    /\ UNCHANGED <<record_all, arg, res>>
    /\ frags' = IF text = <<>> THEN frags ELSE Append(frags, text)
    /\ exc' = r.exc
    /\ line' = r.t.line
    /\ lines' = r.t.lines
    /\ prev_segment' = r.t.prev

\* TempHistory.print(*values, sep, end, file, record), inherited by
\* TerminalHistory.
print(values, sep, end, file, record) ==
    LET text == join(sep, values) \o end
        r    == record_call(tracker, text)
    IN
    /\ op \in {"init", "idle"}
    /\ Len(text) <= rem
    /\ op' = "print"
    /\ call' = [values |-> values, sep |-> sep, end |-> end,
                file |-> file, record |-> record]
    /\ stdout' = IF file \in {"stdout", "None"} THEN text ELSE <<>>
    /\ UNCHANGED <<record_all, arg, res>>
    /\ IF record /\ file \in {"stdout", "None"}
       THEN /\ frags' = IF text = <<>> THEN frags ELSE Append(frags, text)
            /\ exc' = r.exc
            /\ line' = r.t.line
            /\ lines' = r.t.lines
            /\ prev_segment' = r.t.prev
       ELSE /\ exc' = "none"
            /\ UNCHANGED <<line, lines, prev_segment, frags>>

\* TempHistory.input(prompt, newline), inherited by TerminalHistory; response
\* is what builtin_input returns and using_stdin what the os.fstat test gives.
input(prompt, response, newline, using_stdin) ==
    LET r1 == IF using_stdin THEN record_call(tracker, prompt)
              ELSE [t |-> tracker, exc |-> "none"]
        r2 == IF using_stdin /\ r1.exc = "none" THEN record_call(r1.t, response)
              ELSE r1
        l2 == IF record_all
              THEN (IF r2.t.lines = <<>> THEN None ELSE Last(r2.t.lines))
              ELSE r2.t.line
    IN
    /\ op \in {"init", "idle"}
    /\ Len(prompt) + Len(response) <= rem
    /\ NL \notin {response[i] : i \in 1..Len(response)}
    /\ op' = "input"
    /\ call' = [prompt |-> prompt, response |-> response,
                newline |-> newline, using_stdin |-> using_stdin]
    /\ UNCHANGED <<record_all, arg, res>>
    /\ frags' = IF ~using_stdin THEN frags
                ELSE frags \o (IF prompt = <<>> THEN <<>> ELSE <<prompt>>)
                           \o (IF response = <<>> \/ r1.exc # "none"
                               THEN <<>> ELSE <<response>>)
    /\ line' = r2.t.line
    /\ lines' = r2.t.lines
    /\ prev_segment' = r2.t.prev
    /\ IF r2.exc # "none"
       THEN exc' = r2.exc /\ stdout' = <<>>
       ELSE IF newline
       THEN exc' = "none" /\ stdout' = <<>>
       ELSE IF l2 = None
       THEN exc' = "TypeError" /\ stdout' = <<>>
       ELSE exc' = "none" /\ stdout' = undo_sequence(Len(l2))

\* The caller goes on to its next statement after print or input.
call_returns ==
    /\ op \in {"print", "input"}
    /\ op' = "idle"
    /\ call' = NoArgs
    /\ stdout' = <<>>
    /\ exc' = "none"
    /\ UNCHANGED <<record_all, line, lines, prev_segment, frags, arg, res>>

NextIO ==
    \/ call_returns
    \/ \E values \in ValueSeqs(rem), sep \in Seps, end \in Ends :
       \E file \in Files, record \in BOOLEAN :
           print(values, sep, end, file, record)
    \/ \E prompt \in IOTexts, response \in IOTexts :
       \E newline \in BOOLEAN, using_stdin \in BOOLEAN :
           input(prompt, response, newline, using_stdin)

SpecIO == Init /\ [][NextIO]_vars

\* ---- the helpers called directly on a text ----
Texts == UNION {TextsOfLen(n) : n \in 0..MaxText}

InitPure ==
    /\ record_all = FALSE
    /\ line = None
    /\ lines = <<>>
    /\ prev_segment = None
    /\ stdout = <<>>
    /\ exc = "none"
    /\ op = "init"
    /\ frags = <<>>
    /\ call = NoArgs
    /\ arg \in Texts
    /\ res = <<>>

call_handle_bs ==
    /\ op = "init"
    /\ op' = "handle_bs"
    /\ res' = <<handle_bs(arg)>>
    /\ UNCHANGED <<record_all, line, lines, prev_segment, stdout, exc, frags, call,
                   arg>>

call_handle_cr ==
    /\ op = "init"
    /\ op' = "handle_cr"
    /\ res' = <<handle_cr(arg)>>
    /\ UNCHANGED <<record_all, line, lines, prev_segment, stdout, exc, frags, call,
                   arg>>

\* handle_nl("") reads text[-1] of the empty text.
call_handle_nl ==
    /\ op = "init"
    /\ op' = "handle_nl"
    /\ IF arg = <<>>
       THEN exc' = "IndexError" /\ res' = <<>>
       ELSE exc' = "none" /\ res' = handle_nl(arg)
    /\ UNCHANGED <<record_all, line, lines, prev_segment, stdout, frags, call,
                   arg>>

NextPure ==
    \/ call_handle_bs
    \/ call_handle_cr
    \/ call_handle_nl

SpecPure == InitPure /\ [][NextPure]_vars

\* ---- reference results the claims compare against ----
Range(s) == {s[i] : i \in 1..Len(s)}

\* Each backspace erases the nearest preceding character still present; a
\* backspace with nothing before it is dropped.
RECURSIVE RefErase(_)
RefErase(text) ==
    IF text = <<>> THEN <<>>
    ELSE LET p == RefErase(Front(text)) IN
         IF Last(text) = BS THEN (IF p = <<>> THEN <<>> ELSE Front(p))
         ELSE Append(p, Last(text))

\* The text cut after each newline, the newline kept on its row.
RECURSIVE RefRows(_)
RefRows(text) ==
    IF text = <<>> THEN <<>>
    ELSE LET p == RefRows(Front(text)) IN
         IF p = <<>> \/ Last(Last(p)) = NL THEN Append(p, <<Last(text)>>)
         ELSE [p EXCEPT ![Len(p)] = Append(@, Last(text))]

NewlineCount(text) == Cardinality({i \in 1..Len(text) : text[i] = NL})

\* The stored lines of the tracker.
StoredLines == IF record_all THEN Range(lines)
               ELSE IF line = None THEN {} ELSE {line}

\* A line without its terminator.
Visible(l) == IF l # <<>> /\ Last(l) = NL THEN Front(l) ELSE l

\* ---- claims ----

\* C1: a non-empty fragment a without newline and then a fragment b, fed to
\* a fresh TempHistory, leave the line that the single fragment a+b leaves
\* (stated for the runs in which both calls return).
C1_ChunkingIndependence ==
    (~record_all /\ Len(frags) = 2 /\ NL \notin Range(frags[1])
                 /\ op = "record" /\ exc = "none")
        => line = record_line(None, fed)

\* C2: no call of _record raises, in either tracker.
C2_FeedNeverFails == op = "record" => exc = "none"

\* C3: no stored line contains a backspace, a carriage return or a tab.
C3_NoControlCodes ==
    \A l \in StoredLines : Range(l) \cap {BS, CR, TAB} = {}

\* C4: a text of ordinary characters and backspaces, cut into non-empty
\* fragments fed in order to a fresh TempHistory, leaves the line in which
\* every backspace has erased the nearest preceding remaining character
\* (stated for the runs in which the last call returns).
C4_BackspaceErasure ==
    (~record_all /\ frags # <<>> /\ Range(fed) \subseteq Ordinary \cup {BS}
                 /\ op = "record" /\ exc = "none")
        => line = RefErase(fed)

\* C5: handle_bs removes (character, backspace) pairs until none remains:
\* on a text without newline that starts with an ordinary character, its
\* result is the fully erased text and holds no backspace.
C5_HandleBsComplete ==
    (op = "handle_bs" /\ NL \notin Range(arg)
                      /\ arg # <<>> /\ Head(arg) \in Ordinary)
        => res = <<RefErase(arg)>> /\ BS \notin Range(res[1])

\* C6: when the line of a TempHistory is open and a fragment x + newline + y
\* is fed, y non-empty and without newline, the line afterwards is what y
\* alone leaves on a fresh tracker: the old content is discarded.
C6_LineLifecycle ==
    [][(/\ ~record_all
        /\ line # None /\ line # <<>> /\ Last(line) # NL
        /\ Len(frags') = Len(frags) + 1
        /\ NL \in Range(Last(frags'))
        /\ Last(Last(frags')) # NL)
          => line' = record_line(None, Last(split(Last(frags'), NL)))]_vars

\* C7: in a TerminalHistory every element of lines but the last ends with a
\* newline, and no element holds a newline before its last character.
C7_RetentionShape ==
    record_all =>
        /\ \A i \in 1..(Len(lines) - 1) :
               lines[i] # <<>> /\ Last(lines[i]) = NL
        /\ \A i \in 1..Len(lines) :
               \A j \in 1..(Len(lines[i]) - 1) : lines[i][j] # NL

\* C8: a text of ordinary characters and newlines, cut into non-empty
\* fragments fed in order to a fresh TerminalHistory, leaves in lines the
\* rows of the text, each terminated row with its newline, oldest first.
C8_RetentionContent ==
    (record_all /\ frags # <<>> /\ Range(fed) \subseteq Ordinary \cup {NL})
        => /\ lines = RefRows(fed)
           /\ Len(lines) = NewlineCount(fed) + (IF Last(fed) = NL THEN 0 ELSE 1)

\* C9: after at least one non-empty feed, the column count _undo_newline
\* writes is the length of the current line without its terminator.
C9_UndoDisplacement ==
    (op = "undo" /\ frags # <<>>)
        => stdout = undo_sequence(Len(Visible(cur_line)))

\* C10: _undo_newline leaves line, lines and _prev_segment unchanged.
C10_UndoNotRecorded ==
    [][op' = "undo" => UNCHANGED <<line, lines, prev_segment>>]_vars

\* C10 witness: _undo_newline has written the sequence for a recorded line.
C10_Witness == op = "undo" /\ frags # <<>> /\ exc = "none" /\ stdout # <<>>

\* C11: a tracker on which no non-empty fragment has been fed holds the
\* empty string as its current line.
C11_InitialLineEmpty == frags = <<>> => cur_line = <<>>

\* C12: a feed to a TerminalHistory never shortens lines, leaves every
\* element but the last as it was, and leaves a closed last element as it
\* was.
C12_RetentionAppendOnly ==
    [][record_all =>
        /\ Len(lines') >= Len(lines)
        /\ \A i \in 1..(Len(lines) - 1) : lines'[i] = lines[i]
        /\ (lines # <<>> /\ Last(lines) # <<>> /\ Last(Last(lines)) = NL)
              => lines'[Len(lines)] = Last(lines)]_vars

\* C12 witness: a feed has appended a line after a closed one.
C12_Witness ==
    /\ record_all /\ op = "record" /\ exc = "none"
    /\ Len(lines) >= 2 /\ Len(frags) >= 2

\* Each tab replaced by the spaces (1 to 8) that bring the column to the
\* next multiple of 8, the column counted from the start of the text.
RECURSIVE RefExpandTabs(_)
RefExpandTabs(text) ==
    IF text = <<>> THEN <<>>
    ELSE LET p == RefExpandTabs(Front(text)) IN
         IF Last(text) = TAB THEN p \o [i \in 1..(8 - (Len(p) % 8)) |-> SP]
         ELSE Append(p, Last(text))

\* C14: after one fragment of ordinary characters and tabs is fed to a fresh
\* tracker, the stored line is the fragment with its tabs expanded.
C14_TabExpansion ==
    (/\ Len(frags) = 1 /\ op = "record"
     /\ TAB \in Range(fed) /\ Range(fed) \subseteq Ordinary \cup {TAB})
        => cur_line = RefExpandTabs(fed)

\* The text after the last carriage return of a text.
RECURSIVE AfterLastCR(_)
AfterLastCR(text) ==
    IF CR \in Range(text) THEN AfterLastCR(Tail(text)) ELSE text

\* C15: the i-th segment handle_nl returns is made from the i-th
\* newline-delimited piece of the text alone (it is the segment that piece
\* gives when it is the whole text), and its content is the piece cut after
\* its last carriage return first and resolved for backspaces second.
C15_PipelinePerSegment ==
    (op = "handle_nl" /\ arg # <<>>) =>
        LET pieces == split(arg, NL) IN
        \A i \in 1..Len(res) :
            /\ Visible(res[i]) = handle_bs(AfterLastCR(pieces[i]))
            /\ res[i] = Head(handle_nl(IF i < Len(pieces)
                                       THEN pieces[i] \o <<NL>> ELSE pieces[i]))

\* C15 witness: handle_nl has returned for a text that holds a backspace, a
\* carriage return and a newline.
C15_Witness ==
    op = "handle_nl" /\ exc = "none" /\ {BS, CR, NL} \subseteq Range(arg)

\* C16: for a non-empty text handle_nl returns a non-empty list; no element
\* holds a newline before its last character; every element but the last
\* ends with a newline; the last one does if and only if the text does; and
\* there are as many elements as newlines, plus one when the text does not
\* end with a newline.
C16_SplitShape ==
    (op = "handle_nl" /\ arg # <<>>) =>
        /\ res # <<>>
        /\ \A i \in 1..Len(res) :
               \A j \in 1..(Len(res[i]) - 1) : res[i][j] # NL
        /\ \A i \in 1..(Len(res) - 1) : res[i] # <<>> /\ Last(res[i]) = NL
        /\ (Last(res) # <<>> /\ Last(Last(res)) = NL) <=> (Last(arg) = NL)
        /\ Len(res) = NewlineCount(arg) + (IF Last(arg) = NL THEN 0 ELSE 1)

\* C16 witness: handle_nl has returned several segments for a text that
\* ends with a newline.
C16_Witness ==
    op = "handle_nl" /\ exc = "none" /\ Len(res) >= 2 /\ Last(arg) = NL

\* The line of a fresh TempHistory after the non-empty fragments fs, fed in
\* order (a call that raises leaves the line as it was).
RECURSIVE TempReplay(_)
TempReplay(fs) ==
    IF fs = <<>> THEN None
    ELSE LET l == TempReplay(Front(fs)) IN
         IF l = <<>> THEN l ELSE record_line(l, Last(fs))

\* The lines of a fresh TerminalHistory after the non-empty fragments fs.
RECURSIVE TerminalReplay(_)
TerminalReplay(fs) ==
    IF fs = <<>> THEN <<>>
    ELSE LET ls == TerminalReplay(Front(fs))
             l  == IF ls = <<>> THEN None ELSE Last(ls) IN
         IF l = <<>> THEN ls
         ELSE record_loop(ls, None, handle_nl(Last(fs)), prev_line_ended(l)).lines

\* C17: after the same fragments, fed by _record in the same order, the line
\* of a TempHistory is the last element of the lines of a TerminalHistory.
C17_ModesAgree ==
    (frags # <<>> /\ op = "record") =>
        IF record_all THEN Last(lines) = TempReplay(frags)
        ELSE line = Last(TerminalReplay(frags))

\* C13: _record("") returns without raising and leaves line, lines and
\* _prev_segment (hence also whether the line is open) unchanged.
C13_EmptyFeedNoOp ==
    [][(op' = "record" /\ call'.text = <<>>)
          => exc' = "none" /\ UNCHANGED <<line, lines, prev_segment>>]_vars

\* C13 witness: the empty fragment has been fed to a tracker that holds
\* recorded text.
C13_Witness ==
    op = "record" /\ call.text = <<>> /\ frags # <<>> /\ cur_line # None

\* sep.join(values), built from the left.
RECURSIVE RefJoin(_, _)
RefJoin(sep, values) ==
    IF values = <<>> THEN <<>>
    ELSE IF Len(values) = 1 THEN values[1]
    ELSE RefJoin(sep, Front(values)) \o sep \o Last(values)

\* C18: whenever input(newline=False) is called and its _record calls
\* return, _undo_newline writes the sequence with a natural column count and
\* nothing is raised.
C18_UndoAlwaysDefined ==
    (op = "input" /\ ~call.newline /\ exc # "IndexError") =>
        /\ exc = "none"
        /\ \E n \in 0..(MaxText + 1) : stdout = undo_sequence(n)

\* C19: input leaves the tracker unchanged when stdin is not the terminal;
\* when it is, newline is false, the current line is open and holds only
\* ordinary characters L, and prompt and response hold only ordinary
\* characters, the line afterwards is L + prompt + response and the column
\* count written is len(L) + len(prompt) + len(response).
C19_InputRecordsInOrder ==
    [][(op' = "input" /\ op # "input") =>
        /\ ~call'.using_stdin => UNCHANGED <<line, lines, prev_segment>>
        /\ (/\ call'.using_stdin /\ ~call'.newline
            /\ cur_line # None
            /\ Range(cur_line) \subseteq Ordinary \cup {SP}
            /\ Range(call'.prompt) \subseteq Ordinary \cup {SP}
            /\ Range(call'.response) \subseteq Ordinary \cup {SP})
              => /\ exc' = "none"
                 /\ cur_line' = cur_line \o call'.prompt \o call'.response
                 /\ stdout' = undo_sequence(Len(cur_line) + Len(call'.prompt)
                                              + Len(call'.response))]_vars

\* C20: print gives sep.join(values) + end to _record once when record is
\* true and file is sys.stdout or None, and leaves the tracker unchanged
\* otherwise.
C20_PrintRecords ==
    [][(op' = "print" /\ op # "print") =>
        LET text == RefJoin(call'.sep, call'.values) \o call'.end
            once == record_call(tracker, text)
        IN
        IF call'.record /\ call'.file \in {"stdout", "None"}
        THEN /\ <<line', lines', prev_segment'>>
                    = <<once.t.line, once.t.lines, once.t.prev>>
             /\ exc' = once.exc
        ELSE /\ UNCHANGED <<line, lines, prev_segment>>
             /\ exc' = "none"]_vars

\* C20 witness: print has recorded two values joined by a separator onto a
\* line that held recorded text.
C20_Witness ==
    /\ op = "print" /\ exc = "none"
    /\ call.record /\ call.file = "None"
    /\ Len(call.values) = 2 /\ call.values[1] # <<>>
    /\ call.sep # <<>>
    /\ Len(frags) >= 2

====
